---- MODULE Spec2Model ----
(***************************************************************************)
(* Model of the influxdb-line-protocol crate: validated names and values,  *)
(* the escaping engine, timestamps, the field value encodings, the Point   *)
(* builder with its single-line rendering, and the Batch of Points.        *)
(*                                                                         *)
(* Strings are sequences of one-character strings.  An i64 / u64 is its    *)
(* 64-bit pattern, a little-endian sequence of four 16-bit limbs, so that  *)
(* overflow, wrap-around and truncating division are computed exactly.     *)
(***************************************************************************)
EXTENDS Integers, Sequences, FiniteSets, TLC

(***************************************************************************)
(* Option and Result                                                       *)
(***************************************************************************)
None == [some |-> FALSE]
Some(x) == [some |-> TRUE, val |-> x]
Ok(x) == [ok |-> TRUE, val |-> x]
Err(e) == [ok |-> FALSE, err |-> e]

NewLine == "NewLine"
StartWithForbieden_ == "StartWithForbieden_"
\* the error that Error::from makes of the NaN error of NotNan::new
NotANumber == "NotANumber"

(***************************************************************************)
(* 64-bit integers                                                         *)
(***************************************************************************)
Base == 256 * 256

RECURSIVE MulSmall(_, _, _)
\* x * m + c on unsigned limbs, modulo Base^Len(x)
MulSmall(x, m, c) ==
    IF x = <<>> THEN <<>>
    ELSE LET t == Head(x) * m + c
         IN  <<t % Base>> \o MulSmall(Tail(x), m, t \div Base)

RECURSIVE DivSmall(_, _, _)
\* (r * Base^Len(x) + x) \div d on unsigned limbs, for r < d
DivSmall(x, d, r) ==
    IF x = <<>> THEN <<>>
    ELSE LET n == Len(x)
             t == r * Base + x[n]
         IN  DivSmall(SubSeq(x, 1, n - 1), d, t % d) \o <<t \div d>>

RECURSIVE RemSmall(_, _, _)
\* (r * Base^Len(x) + x) % d on unsigned limbs, for r < d
RemSmall(x, d, r) ==
    IF x = <<>> THEN r
    ELSE LET n == Len(x)
         IN  RemSmall(SubSeq(x, 1, n - 1), d, (r * Base + x[n]) % d)

RECURSIVE LessU(_, _)
\* x < y on unsigned limb sequences of the same length
LessU(x, y) ==
    IF x = <<>> THEN FALSE
    ELSE LET n == Len(x)
         IN  IF x[n] # y[n] THEN x[n] < y[n]
             ELSE LessU(SubSeq(x, 1, n - 1), SubSeq(y, 1, n - 1))

IsZero(x) == \A i \in 1..Len(x) : x[i] = 0

\* two's complement
IsNeg(x) == x[Len(x)] >= Base \div 2
Neg(x) == MulSmall([i \in 1..Len(x) |-> Base - 1 - x[i]], 1, 1)
Mag(x) == IF IsNeg(x) THEN Neg(x) ELSE x

\* zero-extend an unsigned limb sequence to twice its length
Wide(x) == x \o [i \in 1..Len(x) |-> 0]

I64_MAX == <<Base - 1, Base - 1, Base - 1, (Base \div 2) - 1>>
I64_MIN == <<0, 0, 0, Base \div 2>>

\* the i64 with the value n, for a small TLA+ integer n
I64(n) ==
    LET m == IF n < 0 THEN -n ELSE n
        u == <<m % Base, m \div Base, 0, 0>>
    IN  IF n < 0 THEN Neg(u) ELSE u

RECURSIVE PowMulU(_, _)
\* x * 10^e on unsigned limbs, modulo Base^Len(x)
PowMulU(x, e) == IF e = 0 THEN x ELSE PowMulU(MulSmall(x, 10, 0), e - 1)

RECURSIVE PowDivU(_, _)
\* x \div 10^e on unsigned limbs
PowDivU(x, e) == IF e = 0 THEN x ELSE PowDivU(DivSmall(x, 10, 0), e - 1)

\* does v * 10^e leave the i64 range
MulOverflows(v, e) ==
    LET p     == PowMulU(Wide(Mag(v)), e)
        limit == IF IsNeg(v) THEN Wide(I64_MIN) ELSE Wide(I64_MAX)
    IN  LessU(limit, p)

\* i64::wrapping_mul(v, 10i64.pow(e))
wrapping_mul(v, e) == PowMulU(v, e)

\* i64::checked_mul(v, 10i64.pow(e))
checked_mul(v, e) == IF MulOverflows(v, e) THEN None ELSE Some(wrapping_mul(v, e))

\* the outcomes of the plain `v * 10i64.pow(e)`: the product, or on overflow
\* a panic (overflow checks on) or the wrapped value (overflow checks off)
Mul(v, e) ==
    IF MulOverflows(v, e)
    THEN {[panic |-> TRUE], [panic |-> FALSE, val |-> wrapping_mul(v, e)]}
    ELSE {[panic |-> FALSE, val |-> wrapping_mul(v, e)]}

\* `v / 10i64.pow(e)`: truncates toward zero
Div(v, e) ==
    LET q == PowDivU(Mag(v), e)
    IN  IF IsNeg(v) THEN Neg(q) ELSE q

Digit(d) == <<"0", "1", "2", "3", "4", "5", "6", "7", "8", "9">>[d + 1]

RECURSIVE DecDigits(_)
DecDigits(u) ==
    IF IsZero(u) THEN <<>>
    ELSE DecDigits(DivSmall(u, 10, 0)) \o <<Digit(RemSmall(u, 10, 0))>>

\* u64::to_string
u64_to_string(u) == IF IsZero(u) THEN <<"0">> ELSE DecDigits(u)

\* i64::to_string
i64_to_string(v) ==
    IF IsNeg(v) THEN <<"-">> \o u64_to_string(Mag(v)) ELSE u64_to_string(v)

(***************************************************************************)
(* name_restriction.rs                                                     *)
(***************************************************************************)
starts_with(s, c) == Len(s) > 0 /\ s[1] = c
contains(s, c) == \E i \in 1..Len(s) : s[i] = c

prevent_start_with_(s) == IF starts_with(s, "_") THEN Err(StartWithForbieden_) ELSE Ok(s)

prevent_newline(s) == IF contains(s, "\n") THEN Err(NewLine) ELSE Ok(s)

\* prevent_key with the two checks in the other order
prevent_key_newline_first(s) ==
    IF ~prevent_newline(s).ok THEN prevent_newline(s) ELSE prevent_start_with_(s)

prevent_key(s) ==
    IF ~prevent_start_with_(s).ok THEN prevent_start_with_(s) ELSE prevent_newline(s)

prevent_tag_value(s) == prevent_newline(s)

prevent_filed_value_string(s) == prevent_newline(s)

check_measurement(s) == prevent_newline(s)

(***************************************************************************)
(* escape.rs                                                               *)
(***************************************************************************)
\* A predicate on characters (the is_escape_char parameter and the closures
\* passed for it) is the set of the characters it holds for.

\* str::find: the 0-based offset of the first character satisfying P
find(P, s) ==
    IF \E i \in 1..Len(s) : s[i] \in P
    THEN Some((CHOOSE i \in 1..Len(s) : s[i] \in P /\ \A j \in 1..(i - 1) : s[j] \notin P) - 1)
    ELSE None

\* escape with the loop starting one character late: the first reserved
\* character is copied with the prefix
escape_late_begin(is_escape_char, s) ==
    LET s_len == Len(s)
        begin == IF find(is_escape_char, s).some
                 THEN find(is_escape_char, s).val + 1 ELSE s_len
        escaped_string[i \in begin..s_len] ==
            IF i = begin THEN SubSeq(s, 1, begin)
            ELSE IF s[i] \in is_escape_char
                 THEN escaped_string[i - 1] \o <<"\\", s[i]>>
                 ELSE escaped_string[i - 1] \o <<s[i]>>
    IN  escaped_string[s_len]

escape(is_escape_char, s) ==
    LET s_len == Len(s)
        begin == IF find(is_escape_char, s).some THEN find(is_escape_char, s).val ELSE s_len
        \* escaped_string after the loop has consumed the characters up to i
        escaped_string[i \in begin..s_len] ==
            IF i = begin THEN SubSeq(s, 1, begin)
            ELSE IF s[i] \in is_escape_char
                 THEN escaped_string[i - 1] \o <<"\\", s[i]>>
                 ELSE escaped_string[i - 1] \o <<s[i]>>
    IN  escaped_string[s_len]

escape_comma_equal_space == {"=", ",", " "}

escape_quote_backslash == {"\"", "\\"}

escape_comma_space == {",", " "}

tag_key(s) == escape(escape_comma_equal_space, s)

field_key(s) == escape(escape_comma_equal_space, s)

tag_value(s) == escape(escape_comma_equal_space, s)

field_value(s) == escape(escape_quote_backslash, s)

measurement(s) == escape(escape_comma_space, s)

(***************************************************************************)
(* timestamp.rs                                                            *)
(***************************************************************************)
Now == [unit |-> "Now"]
Nanos(v) == [unit |-> "Nanos", v |-> v]
Micro(v) == [unit |-> "Micro", v |-> v]
Milli(v) == [unit |-> "Milli", v |-> v]
Secs(v) == [unit |-> "Secs", v |-> v]

Precisions == {"Secs", "Milli", "Micro", "Nanos"}

\* an operation's outcomes: the value it returns, or a panic
Returns(x) == [panic |-> FALSE, val |-> x]
Panics == [panic |-> TRUE]

\* r_type(v * 10i64.pow(e))
MulTo(unit, v, e) ==
    {IF m.panic THEN Panics ELSE Returns([unit |-> unit, v |-> m.val]) : m \in Mul(v, e)}

to_secs_lossy(self) ==
    CASE self.unit = "Now"   -> {Returns(self)}
      [] self.unit = "Nanos" -> {Returns(Secs(Div(self.v, 9)))}
      [] self.unit = "Micro" -> {Returns(Secs(Div(self.v, 6)))}
      [] self.unit = "Milli" -> {Returns(Secs(Div(self.v, 3)))}
      [] self.unit = "Secs"  -> {Returns(self)}

to_milli_lossy(self) ==
    CASE self.unit = "Now"   -> {Returns(self)}
      [] self.unit = "Nanos" -> {Returns(Milli(Div(self.v, 6)))}
      [] self.unit = "Micro" -> {Returns(Milli(Div(self.v, 3)))}
      [] self.unit = "Milli" -> {Returns(Milli(self.v))}
      [] self.unit = "Secs"  -> MulTo("Milli", self.v, 3)

to_micro_lossy(self) ==
    CASE self.unit = "Now"   -> {Returns(self)}
      [] self.unit = "Nanos" -> {Returns(Micro(Div(self.v, 3)))}
      [] self.unit = "Micro" -> {Returns(Micro(self.v))}
      [] self.unit = "Milli" -> MulTo("Micro", self.v, 3)
      [] self.unit = "Secs"  -> MulTo("Micro", self.v, 6)

to_nanos(self) ==
    CASE self.unit = "Now"   -> {Returns(self)}
      [] self.unit = "Nanos" -> {Returns(Nanos(self.v))}
      [] self.unit = "Micro" -> MulTo("Nanos", self.v, 3)
      [] self.unit = "Milli" -> MulTo("Nanos", self.v, 6)
      [] self.unit = "Secs"  -> MulTo("Nanos", self.v, 9)

timestamp_precision_lossy(self, precision) ==
    CASE precision = "Secs"  -> to_secs_lossy(self)
      [] precision = "Milli" -> to_milli_lossy(self)
      [] precision = "Micro" -> to_micro_lossy(self)
      [] precision = "Nanos" -> to_nanos(self)

timestamp_nanos(self) ==
    CASE self.unit = "Now"   -> None
      [] self.unit = "Nanos" -> Some(self.v)
      [] self.unit = "Micro" -> checked_mul(self.v, 3)
      [] self.unit = "Milli" -> checked_mul(self.v, 6)
      [] self.unit = "Secs"  -> checked_mul(self.v, 9)

(***************************************************************************)
(* precision.rs                                                            *)
(***************************************************************************)
\* enum Precision { Secs, Milli, Micro, Nanos }: the derived Ord compares the
\* positions of the variants in the declaration
Precision_ord(precision) ==
    CASE precision = "Secs"  -> 0
      [] precision = "Milli" -> 1
      [] precision = "Micro" -> 2
      [] precision = "Nanos" -> 3

\* a > b on Option<Precision>: None is below every Some
Option_gt(a, b) ==
    IF ~a.some THEN FALSE
    ELSE IF ~b.some THEN TRUE
    ELSE Precision_ord(a.val) > Precision_ord(b.val)

\* Timestamp::precision
Timestamp_precision(self) ==
    IF self.unit = "Now" THEN None ELSE Some(self.unit)

(***************************************************************************)
(* measurement.rs, tag.rs, field.rs                                        *)
(***************************************************************************)
Measurement_new(s) == check_measurement(s)

TagKey_new(s) == prevent_key(s)

TagValue_new(s) == prevent_tag_value(s)

Tag(key, value) == [key |-> key, value |-> value]

\* impl TryFrom<(K, V)> for Tag, on a pair of raw strings
Tag_try_from(kv) ==
    LET key == TagKey_new(kv[1])
        value == TagValue_new(kv[2])
    IN  IF ~key.ok THEN key ELSE IF ~value.ok THEN value ELSE Ok(Tag(key.val, value.val))

Tag_new(key, value) ==
    LET k == TagKey_new(key)
        v == TagValue_new(value)
    IN  IF ~k.ok THEN k ELSE IF ~v.ok THEN v ELSE Ok(Tag(k.val, v.val))

Tag_to_text(self) == tag_key(self.key) \o <<"=">> \o tag_value(self.value)

FieldKey_new(s) == prevent_key(s)

\* an f64 or f32 is NaN, an infinity, or a finite value written in decimal:
\* its sign, the digits of its integer part and the digits after the point
\* (none for an integer), as the shortest text that reads back as the value
NaN == [class |-> "NaN"]
Infinity(neg) == [class |-> "inf", neg |-> neg]
Finite(neg, int, frac) == [class |-> "finite", neg |-> neg, int |-> int, frac |-> frac]

\* f64::to_string
f64_to_string(x) ==
    CASE x.class = "NaN" -> <<"N", "a", "N">>
      [] x.class = "inf" -> (IF x.neg THEN <<"-">> ELSE <<>>) \o <<"i", "n", "f">>
      [] x.class = "finite" ->
           (IF x.neg THEN <<"-">> ELSE <<>>) \o x.int
           \o (IF x.frac = <<>> THEN <<>> ELSE <<".">> \o x.frac)

\* f64::from(f32): the same value (NaN stays NaN, an infinity stays itself)
f64_from_f32(x) == x

\* NotNan::new
NotNan_new(val) == IF val.class = "NaN" THEN Err("FloatIsNan") ELSE Ok(val)

\* enum FieldValue: the variants are public constructors
String(s) == [String |-> s]
UInteger(v) == [UInteger |-> v]
Integer(v) == [Integer |-> v]
Float(f) == [Float |-> f]
Boolean(b) == [Boolean |-> b]

Is(x, variant) == variant \in DOMAIN x

\* the values a caller converts into a FieldValue: a raw string (TryFrom<String>,
\* TryFrom<&str>), a u64, i64 or bool (From), or a FieldValue (the reflexive
\* conversion, which cannot fail)
RawStr(s) == [str |-> s]
RawU64(v) == [u64 |-> v]
RawI64(v) == [i64 |-> v]
RawBool(b) == [bool |-> b]
RawF64(x) == [f64 |-> x]
RawF32(x) == [f32 |-> x]
RawFieldValue(fv) == [FieldValue |-> fv]

FieldValue_try_from(s) ==
    IF prevent_filed_value_string(s).ok THEN Ok(String(s)) ELSE prevent_filed_value_string(s)

\* impl TryFrom<f64> for FieldValue without NotNan::new
FieldValue_try_from_f64_unchecked(value) == Ok(Float(value))

\* impl TryFrom<f64> for FieldValue
FieldValue_try_from_f64(value) ==
    LET notnan == NotNan_new(value)
    IN  IF notnan.ok THEN Ok(Float(notnan.val)) ELSE Err(NotANumber)

\* impl TryFrom<f32> for FieldValue
FieldValue_try_from_f32(value) == FieldValue_try_from_f64(f64_from_f32(value))

FieldValue_try_into(raw) ==
    CASE Is(raw, "str")        -> FieldValue_try_from(raw.str)
      [] Is(raw, "f64")        -> FieldValue_try_from_f64(raw.f64)
      [] Is(raw, "f32")        -> FieldValue_try_from_f32(raw.f32)
      [] Is(raw, "u64")        -> Ok(UInteger(raw.u64))
      [] Is(raw, "i64")        -> Ok(Integer(raw.i64))
      [] Is(raw, "bool")       -> Ok(Boolean(raw.bool))
      [] Is(raw, "FieldValue") -> Ok(raw.FieldValue)

FieldValue_to_text(self) ==
    CASE Is(self, "String")   -> <<"\"">> \o field_value(self.String) \o <<"\"">>
      [] Is(self, "UInteger") -> u64_to_string(self.UInteger) \o <<"u">>
      [] Is(self, "Integer")  -> i64_to_string(self.Integer) \o <<"i">>
      [] Is(self, "Float")    -> f64_to_string(self.Float)
      [] Is(self, "Boolean")  -> IF self.Boolean THEN <<"t", "r", "u", "e">>
                                                 ELSE <<"f", "a", "l", "s", "e">>

Field(key, value) == [key |-> key, value |-> value]

\* impl TryFrom<(K, V)> for Field: the key is converted first
Field_try_from(kv) ==
    LET key == FieldKey_new(kv[1])
        value == FieldValue_try_into(kv[2])
    IN  IF ~key.ok THEN key ELSE IF ~value.ok THEN value ELSE Ok(Field(key.val, value.val))

\* Field::new: the value is converted first
Field_new(key, value) ==
    LET v == FieldValue_try_into(value)
        k == FieldKey_new(key)
    IN  IF ~v.ok THEN v ELSE IF ~k.ok THEN k ELSE Ok(Field(k.val, v.val))

Field_to_text(self) == field_key(self.key) \o <<"=">> \o FieldValue_to_text(self.value)

(***************************************************************************)
(* point.rs                                                                *)
(***************************************************************************)
Point(m, tags, fields, ts) ==
    [measurment |-> m, tag_set |-> tags, field_set |-> fields, timestamp |-> ts]

\* to_text without the first_iter distinction: every field is preceded by ", "
Point_to_text_no_first_iter(self) ==
    LET tags == self.tag_set
        fields == self.field_set
        tag_line[i \in 0..Len(tags)] ==
            IF i = 0 THEN measurement(self.measurment)
            ELSE tag_line[i - 1] \o <<",">> \o Tag_to_text(tags[i])
        field_line[j \in 0..Len(fields)] ==
            IF j = 0 THEN tag_line[Len(tags)]
            ELSE field_line[j - 1] \o <<",", " ">> \o Field_to_text(fields[j])
        line == field_line[Len(fields)]
        ts == timestamp_nanos(self.timestamp)
    IN  IF ts.some THEN line \o <<" ">> \o i64_to_string(ts.val) ELSE line

Point_to_text(self) ==
    LET tags == self.tag_set
        fields == self.field_set
        \* line after the first i tags
        tag_line[i \in 0..Len(tags)] ==
            IF i = 0 THEN measurement(self.measurment)
            ELSE tag_line[i - 1] \o <<",">> \o Tag_to_text(tags[i])
        \* line after the first j fields; first_iter holds at j = 1
        field_line[j \in 0..Len(fields)] ==
            IF j = 0 THEN tag_line[Len(tags)]
            ELSE IF j = 1
                 THEN field_line[j - 1] \o <<" ">> \o Field_to_text(fields[j])
                 ELSE field_line[j - 1] \o <<",", " ">> \o Field_to_text(fields[j])
        line == field_line[Len(fields)]
        ts == timestamp_nanos(self.timestamp)
    IN  IF ts.some THEN line \o <<" ">> \o i64_to_string(ts.val) ELSE line

\* Point::precision, which batch.rs calls: the precision of the timestamp
Point_precision(self) == Timestamp_precision(self.timestamp)

\* Point::to_text_with_precision, which batch.rs calls: the rendering of the
\* Point as it is for None, and with its timestamp converted by
\* timestamp_precision_lossy for Some(precision); the conversion can panic
Point_to_text_with_precision(self, precision) ==
    IF ~precision.some THEN {Returns(Point_to_text(self))}
    ELSE {IF ts.panic THEN Panics
          ELSE Returns(Point_to_text([self EXCEPT !.timestamp = ts.val])) :
              ts \in timestamp_precision_lossy(self.timestamp, precision.val)}

\* Result::from_iter: the first Err in order, else Ok of all the values
RECURSIVE from_iter(_)
from_iter(rs) ==
    IF rs = <<>> THEN Ok(<<>>)
    ELSE IF ~Head(rs).ok THEN Head(rs)
    ELSE LET rest == from_iter(Tail(rs))
         IN  IF ~rest.ok THEN rest ELSE Ok(<<Head(rs).val>> \o rest.val)

\* struct PointBuilder, and its methods as functions of the builder value: each
\* one takes self and returns the builder that the chain continues with
PointBuilder(p, es) == [point |-> p, errors |-> es]

PointBuilder_add_tag(self, tag_set) ==
    [self EXCEPT !.point.tag_set = Append(@, tag_set)]

\* add_tags that puts the new tags before the ones already held
PointBuilder_add_tags_front(self, tags) ==
    [self EXCEPT !.point.tag_set = tags \o @]

PointBuilder_add_tags(self, tags) ==
    [self EXCEPT !.point.tag_set = @ \o tags]

PointBuilder_try_add_tag(self, tag) ==
    LET res == Tag_try_from(tag)
    IN  IF res.ok THEN PointBuilder_add_tag(self, res.val)
        ELSE [self EXCEPT !.errors = Append(@, res.err)]

PointBuilder_try_add_tags(self, iter) ==
    LET res_tags == from_iter([i \in 1..Len(iter) |-> Tag_try_from(iter[i])])
    IN  IF res_tags.ok THEN PointBuilder_add_tags(self, res_tags.val)
        ELSE [self EXCEPT !.errors = Append(@, res_tags.err)]

PointBuilder_add_field(self, field) ==
    [self EXCEPT !.point.field_set = Append(@, field)]

PointBuilder_add_fields(self, fields) ==
    [self EXCEPT !.point.field_set = @ \o fields]

\* try_add_fields that keeps the fields converted before the first failure
PointBuilder_try_add_fields_partial(self, iter) ==
    LET res == [i \in 1..Len(iter) |-> Field_try_from(iter[i])]
        res_tags == from_iter(res)
        good == CHOOSE n \in 0..Len(iter) :
                    /\ \A i \in 1..n : res[i].ok
                    /\ n < Len(iter) => ~res[n + 1].ok
    IN  IF res_tags.ok THEN PointBuilder_add_fields(self, res_tags.val)
        ELSE [PointBuilder_add_fields(self, [i \in 1..good |-> res[i].val])
                  EXCEPT !.errors = Append(@, res_tags.err)]

PointBuilder_try_add_fields(self, iter) ==
    LET res_tags == from_iter([i \in 1..Len(iter) |-> Field_try_from(iter[i])])
    IN  IF res_tags.ok THEN PointBuilder_add_fields(self, res_tags.val)
        ELSE [self EXCEPT !.errors = Append(@, res_tags.err)]

PointBuilder_timestamp(self, ts) ==
    [self EXCEPT !.point.timestamp = ts]

\* build: the panic, or the Result that it returns
PointBuilder_build(self) ==
    IF self.point.field_set = <<>> THEN Panics
    ELSE IF self.errors # <<>> THEN Returns(Err(Head(self.errors)))
    ELSE Returns(Ok(self.point))

(***************************************************************************)
(* batch.rs                                                                *)
(***************************************************************************)
\* the fold that keeps the precision of the last point alone
highest_precision_of_last(vec) ==
    LET fold[i \in 0..Len(vec)] ==
            IF i = 0 THEN None ELSE Point_precision(vec[i])
    IN  fold[Len(vec)]

\* fold(None, |p, acc| ..): p is the value folded so far, acc the precision of
\* the next point
highest_precision(vec) ==
    LET fold[i \in 0..Len(vec)] ==
            IF i = 0 THEN None
            ELSE LET p == fold[i - 1]
                     acc == Point_precision(vec[i])
                 IN  IF p.some /\ p.val = "Nanos" THEN p
                     ELSE IF Option_gt(p, acc) THEN p ELSE acc
    IN  fold[Len(vec)]

Batch(inner) == [inner |-> inner]

Batch_with_capacity == Batch(<<>>)

\* push_point on a Batch value
Batch_push_point(self, p) == Batch(Append(self.inner, p))

RECURSIVE Batch_push_points(_, _)
Batch_push_points(self, p_vec) ==
    IF p_vec = <<>> THEN self
    ELSE Batch_push_points(Batch_push_point(self, Head(p_vec)), Tail(p_vec))

\* impl From<Vec<V>> for Batch
Batch_from_vec(v) == Batch_push_points(Batch_with_capacity, v)

\* impl From<V> for Batch
Batch_from(v) == Batch_from_vec(<<v>>)

Batch_precision(self) == highest_precision(self.inner)

Batch_is_empty(self) == self.inner = <<>>

Batch_len(self) == Len(self.inner)

\* join that ends every text, the last one too, with sep
slice_join_terminated(v, sep) ==
    LET joined[i \in 0..Len(v)] ==
            IF i = 0 THEN <<>> ELSE joined[i - 1] \o v[i] \o sep
    IN  joined[Len(v)]

\* [String]::join
slice_join(v, sep) ==
    LET joined[i \in 0..Len(v)] ==
            IF i = 0 THEN <<>>
            ELSE IF i = 1 THEN v[1]
            ELSE joined[i - 1] \o sep \o v[i]
    IN  joined[Len(v)]

RECURSIVE collect_lines(_, _)
\* .map(|point| point.to_text_with_precision(precision)).collect(): the texts
\* in order, or the panic of a conversion
collect_lines(vec, precision) ==
    IF vec = <<>> THEN {Returns(<<>>)}
    ELSE {IF h.panic \/ t.panic THEN Panics ELSE Returns(<<h.val>> \o t.val) :
              h \in Point_to_text_with_precision(Head(vec), precision),
              t \in collect_lines(Tail(vec), precision)}

to_line_protocol_lossy(self, precision) ==
    {IF ls.panic THEN Panics ELSE Returns(slice_join(ls.val, <<"\n">>)) :
         ls \in collect_lines(self.inner, precision)}

(***************************************************************************)
(* Bounds and inputs                                                       *)
(***************************************************************************)
MaxTags == 2
MaxFields == 2
MaxErrors == 2
MaxBulk == 2
MaxLen == 3

S_test == <<"t", "e", "s", "t">>
S_host == <<"h", "o", "s", "t">>
S_serverA == <<"s", "e", "r", "v", "e", "r", "A">>
S_value == <<"v", "a", "l", "u", "e">>

Measurements == {S_test, <<"_", "m", ",">>, <<"m", "\n">>}

RawTags ==
    { <<S_host, S_serverA>>,
      <<<<"k", " ">>, <<"_", "v", "=">>>>,
      <<<<"_", "k">>, <<"v">>>>,
      <<<<"k">>, <<"a", "\n">>>> }

RawFields ==
    { <<S_value, RawI64(I64(1))>>,
      <<<<"f", "=">>, RawFieldValue(String(<<"\"", "\n">>))>>,
      <<<<"_", "f">>, RawU64(I64(42))>>,
      <<<<"g">>, RawStr(<<"a", "\n">>)>> }

Timestamps == {Now, Nanos(I64(100)), Milli(I64(-2)), Secs(I64_MAX)}

\* the Tags and Fields a caller can hold: the successful conversions
Tags ==
    {Tag_try_from(kv).val : kv \in {r \in RawTags : Tag_try_from(r).ok}}
    \cup {Tag_new(kv[1], kv[2]).val : kv \in {r \in RawTags : Tag_new(r[1], r[2]).ok}}
Fields ==
    {Field_try_from(kv).val : kv \in {r \in RawFields : Field_try_from(r).ok}}
    \cup {Field_new(kv[1], kv[2]).val : kv \in {r \in RawFields : Field_new(r[1], r[2]).ok}}

\* the sequences over S of length at most n
SeqsUpTo(S, n) == UNION {[1..k -> S] : k \in 0..n}

\* the arguments of the bulk operations
TagBulks == SeqsUpTo(Tags, MaxBulk)
RawTagBulks == SeqsUpTo(RawTags, MaxBulk)
FieldBulks == SeqsUpTo(Fields, MaxBulk)
RawFieldBulks == SeqsUpTo(RawFields, MaxBulk)

Alphabet == {"a", "_", "\n", ",", " ", "=", "\"", "\\"}
Strs == SeqsUpTo(Alphabet, MaxLen)

I64Values ==
    { I64(0), I64(1), I64(-1), I64(10), I64(999), I64(1500), I64(-1500),
      I64(1000000000), I64_MAX, I64_MIN,
      Div(I64_MAX, 9), MulSmall(Div(I64_MAX, 9), 1, 1),
      Div(I64_MAX, 6), MulSmall(Div(I64_MAX, 6), 1, 1),
      Div(I64_MAX, 3), MulSmall(Div(I64_MAX, 3), 1, 1), Div(I64_MIN, 3) }

TimestampInputs == {Now} \cup {[unit |-> u, v |-> v] : u \in Precisions, v \in I64Values}

MaxPoints == 2
MaxHeld == 1

\* the builders a chain has reached before the call under study: at most
\* MaxHeld tags, fields and queued errors
Builders ==
    {PointBuilder(Point(S_test, tags, fields, ts), es) :
        tags \in SeqsUpTo(Tags, MaxHeld), fields \in SeqsUpTo(Fields, MaxHeld),
        ts \in {Now, Nanos(I64(100))},
        es \in SeqsUpTo({NewLine, StartWithForbieden_}, MaxHeld)}

\* Points a caller built and hands to a Batch
BatchPoint(ts) == Point(S_test, <<>>, <<Field(S_value, Integer(I64(1)))>>, ts)

BatchPoints ==
    { BatchPoint(Now), BatchPoint(Nanos(I64(1500))), BatchPoint(Secs(I64_MAX)),
      Point(S_test, <<>>, <<Field(<<"f", "=">>, String(<<"\"", "\n">>))>>, Milli(I64(-2))) }

PointBulks == SeqsUpTo(BatchPoints, MaxBulk)

\* floats a caller converts: f32 values are also f64 values
F32Values ==
    { NaN, Infinity(FALSE), Infinity(TRUE),
      Finite(FALSE, <<"0">>, <<>>), Finite(TRUE, <<"0">>, <<>>),
      Finite(FALSE, <<"3">>, <<"5">>), Finite(TRUE, <<"0">>, <<"2", "5">>),
      Finite(FALSE, <<"4", "4">>, <<>>) }

F64Values ==
    F32Values
    \cup { Finite(FALSE, <<"6", "4">>, <<"4">>),
           Finite(FALSE, <<"0">>, <<"0", "0", "0", "0", "0", "0", "1">>),
           Finite(TRUE, <<"1", "0", "0", "0", "0", "0", "0", "0", "0", "0", "0",
                          "0", "0", "0", "0", "0", "0", "0", "0", "0", "0", "0">>, <<>>) }

ValueStrs == {<<>>, <<"a">>, <<"a", "\"", "\\">>, <<" ", ",", "=">>, <<"a", "\n">>}

\* the FieldValues a caller can hold: every variant built directly, the Float
\* variant from a NotNan that NotNan::new returned
FieldValues ==
    {String(v) : v \in ValueStrs}
    \cup {UInteger(v) : v \in {I64(0), I64(42), I64(-1)}}
    \cup {Integer(v) : v \in {I64(0), I64(42), I64(-42), I64_MIN, I64_MAX}}
    \cup {Float(NotNan_new(x).val) : x \in {y \in F64Values : NotNan_new(y).ok}}
    \cup {Boolean(b) : b \in BOOLEAN}

\* the values a caller converts into a FieldValue
RawValues ==
    {RawStr(v) : v \in ValueStrs}
    \cup {RawU64(v) : v \in {I64(0), I64(42), I64(-1)}}
    \cup {RawI64(v) : v \in {I64(0), I64(42), I64(-42), I64_MIN, I64_MAX}}
    \cup {RawBool(b) : b \in BOOLEAN}
    \cup {RawF64(x) : x \in F64Values}
    \cup {RawF32(x) : x \in F32Values}
    \cup {RawFieldValue(fv) : fv \in FieldValues}

FieldKeys == {<<"k">>, <<"k", " ", "=">>}

\* the precision argument of to_line_protocol_lossy
OptionPrecisions == {None} \cup {Some(p) : p \in Precisions}

(***************************************************************************)
(* State                                                                   *)
(***************************************************************************)
VARIABLES
    pc,      \* "start", "building", "failed", "built", "panicked", "rendered"
    point,   \* PointBuilder.point
    errors,  \* PointBuilder.errors
    result,  \* the Result returned by PointBuilder::new (failed) or build (built)
    line,    \* Some(text rendered from the built Point)
    fn,      \* the function applied to arg, "none" before the call
    arg,     \* the input of a function called on its own
    out,     \* what the function returned
    batch,   \* Some(the Batch the caller holds)
    returned \* Some(the Batch that the last clone_and_clear returned)

vars == <<pc, point, errors, result, line, fn, arg, out, batch, returned>>
builder == <<pc, point, errors, result, line>>
call == <<fn, arg, out>>
batches == <<batch, returned>>

NoBuilder ==
    /\ pc = "start"
    /\ point = None
    /\ errors = <<>>
    /\ result = None
    /\ line = None

NoCall ==
    /\ fn = "none"
    /\ arg = None
    /\ out = None

NoBatch ==
    /\ batch = None
    /\ returned = None

(***************************************************************************)
(* PointBuilder                                                            *)
(***************************************************************************)
Init == NoBuilder /\ NoCall /\ NoBatch

\* Point::builder / PointBuilder::new
PointBuilder_new ==
    /\ pc = "start"
    /\ \E m \in Measurements :
         IF Measurement_new(m).ok
         THEN /\ pc' = "building"
              /\ point' = Point(Measurement_new(m).val, <<>>, <<>>, Now)
              /\ errors' = <<>>
              /\ result' = result
         ELSE /\ pc' = "failed"
              /\ result' = Measurement_new(m)
              /\ UNCHANGED <<point, errors>>
    /\ UNCHANGED <<line, call, batches>>

add_tag ==
    /\ pc = "building"
    /\ Len(point.tag_set) < MaxTags
    /\ \E tag_set \in Tags :
         point' = [point EXCEPT !.tag_set = Append(@, tag_set)]
    /\ UNCHANGED <<pc, errors, result, line, call, batches>>

add_tags ==
    /\ pc = "building"
    /\ \E tags \in TagBulks :
         /\ Len(point.tag_set) + Len(tags) <= MaxTags
         /\ point' = [point EXCEPT !.tag_set = @ \o tags]
    /\ UNCHANGED <<pc, errors, result, line, call, batches>>

try_add_tag ==
    /\ pc = "building"
    /\ \E tag \in RawTags :
         LET res == Tag_try_from(tag)
         IN  IF res.ok
             THEN /\ Len(point.tag_set) < MaxTags
                  /\ point' = [point EXCEPT !.tag_set = Append(@, res.val)]
                  /\ UNCHANGED errors
             ELSE /\ Len(errors) < MaxErrors
                  /\ errors' = Append(errors, res.err)
                  /\ UNCHANGED point
    /\ UNCHANGED <<pc, result, line, call, batches>>

try_add_tags ==
    /\ pc = "building"
    /\ \E iter \in RawTagBulks :
         LET res_tags == from_iter([i \in 1..Len(iter) |-> Tag_try_from(iter[i])])
         IN  IF res_tags.ok
             THEN /\ Len(point.tag_set) + Len(iter) <= MaxTags
                  /\ point' = [point EXCEPT !.tag_set = @ \o res_tags.val]
                  /\ UNCHANGED errors
             ELSE /\ Len(errors) < MaxErrors
                  /\ errors' = Append(errors, res_tags.err)
                  /\ UNCHANGED point
    /\ UNCHANGED <<pc, result, line, call, batches>>

add_field ==
    /\ pc = "building"
    /\ Len(point.field_set) < MaxFields
    /\ \E field \in Fields :
         point' = [point EXCEPT !.field_set = Append(@, field)]
    /\ UNCHANGED <<pc, errors, result, line, call, batches>>

add_fields ==
    /\ pc = "building"
    /\ \E fields \in FieldBulks :
         /\ Len(point.field_set) + Len(fields) <= MaxFields
         /\ point' = [point EXCEPT !.field_set = @ \o fields]
    /\ UNCHANGED <<pc, errors, result, line, call, batches>>

try_add_fields ==
    /\ pc = "building"
    /\ \E iter \in RawFieldBulks :
         LET res_tags == from_iter([i \in 1..Len(iter) |-> Field_try_from(iter[i])])
         IN  IF res_tags.ok
             THEN /\ Len(point.field_set) + Len(iter) <= MaxFields
                  /\ point' = [point EXCEPT !.field_set = @ \o res_tags.val]
                  /\ UNCHANGED errors
             ELSE /\ Len(errors) < MaxErrors
                  /\ errors' = Append(errors, res_tags.err)
                  /\ UNCHANGED point
    /\ UNCHANGED <<pc, result, line, call, batches>>

timestamp ==
    /\ pc = "building"
    /\ \E ts \in Timestamps :
         point' = [point EXCEPT !.timestamp = ts]
    /\ UNCHANGED <<pc, errors, result, line, call, batches>>

\* build without the check for an empty field set
build_unchecked ==
    /\ pc = "building"
    /\ pc' = "built"
    /\ errors' = <<>>
    /\ result' = IF errors # <<>> THEN Err(Head(errors)) ELSE Ok(point)
    /\ UNCHANGED <<point, line, call, batches>>

\* build consumes the builder: a panic on an empty field set, else the first
\* queued error (the queue is drained), else the Point
build ==
    /\ pc = "building"
    /\ IF point.field_set = <<>>
       THEN /\ pc' = "panicked"
            /\ UNCHANGED <<errors, result>>
       ELSE /\ pc' = "built"
            /\ errors' = <<>>
            /\ result' = IF errors # <<>> THEN Err(Head(errors)) ELSE Ok(point)
    /\ UNCHANGED <<point, line, call, batches>>

\* Point::to_text on the Point that build returned
to_text ==
    /\ pc = "built"
    /\ result.ok
    /\ pc' = "rendered"
    /\ line' = Some(Point_to_text(result.val))
    /\ UNCHANGED <<point, errors, result, call, batches>>

Next ==
    \/ PointBuilder_new
    \/ add_tag
    \/ add_tags
    \/ try_add_tag
    \/ try_add_tags
    \/ add_field
    \/ add_fields
    \/ try_add_fields
    \/ timestamp
    \/ build
    \/ to_text

Spec == Init /\ [][Next]_vars

(***************************************************************************)
(* The string functions called on their own: one call on one input string  *)
(***************************************************************************)
InitStr == NoBuilder /\ NoBatch /\ fn = "none" /\ arg \in Strs /\ out = None

Call(name, value) ==
    /\ fn = "none"
    /\ fn' = name
    /\ out' = value
    /\ UNCHANGED <<arg, builder, batches>>

call_Measurement_new == Call("Measurement::new", Measurement_new(arg))

call_TagKey_new == Call("TagKey::new", TagKey_new(arg))

call_FieldKey_new == Call("FieldKey::new", FieldKey_new(arg))

call_TagValue_new == Call("TagValue::new", TagValue_new(arg))

call_FieldValue_try_from == Call("FieldValue::try_from", FieldValue_try_from(arg))

call_measurement == Call("escape::measurement", measurement(arg))

call_tag_key == Call("escape::tag_key", tag_key(arg))

call_tag_value == Call("escape::tag_value", tag_value(arg))

call_field_key == Call("escape::field_key", field_key(arg))

call_field_value == Call("escape::field_value", field_value(arg))

NextStr ==
    \/ call_Measurement_new
    \/ call_TagKey_new
    \/ call_FieldKey_new
    \/ call_TagValue_new
    \/ call_FieldValue_try_from
    \/ call_measurement
    \/ call_tag_key
    \/ call_tag_value
    \/ call_field_key
    \/ call_field_value

SpecStr == InitStr /\ [][NextStr]_vars

(***************************************************************************)
(* The Timestamp methods called on their own: one call on one Timestamp    *)
(***************************************************************************)
InitTs == NoBuilder /\ NoBatch /\ fn = "none" /\ arg \in TimestampInputs /\ out = None

call_to_nanos == \E o \in to_nanos(arg) : Call("to_nanos", o)

call_timestamp_nanos == Call("timestamp_nanos", timestamp_nanos(arg))

call_to_secs_lossy == \E o \in to_secs_lossy(arg) : Call("to_secs_lossy", o)

call_to_milli_lossy == \E o \in to_milli_lossy(arg) : Call("to_milli_lossy", o)

call_to_micro_lossy == \E o \in to_micro_lossy(arg) : Call("to_micro_lossy", o)

PrecisionCall(precision) ==
    CASE precision = "Secs"  -> "timestamp_precision_lossy(Secs)"
      [] precision = "Milli" -> "timestamp_precision_lossy(Milli)"
      [] precision = "Micro" -> "timestamp_precision_lossy(Micro)"
      [] precision = "Nanos" -> "timestamp_precision_lossy(Nanos)"

call_timestamp_precision_lossy ==
    \E precision \in Precisions :
        \E o \in timestamp_precision_lossy(arg, precision) :
            Call(PrecisionCall(precision), o)

NextTs ==
    \/ call_to_nanos
    \/ call_timestamp_nanos
    \/ call_to_secs_lossy
    \/ call_to_milli_lossy
    \/ call_to_micro_lossy
    \/ call_timestamp_precision_lossy

SpecTs == InitTs /\ [][NextTs]_vars

(***************************************************************************)
(* The PointBuilder methods called on their own: one call on one builder,   *)
(* which is new or has been reached by earlier calls of the chain           *)
(***************************************************************************)
InitOps ==
    /\ NoCall
    /\ NoBatch
    /\ result = None
    /\ line = None
    /\ \/ pc = "start" /\ point = None /\ errors = <<>>
       \/ /\ pc = "building"
          /\ \E b \in Builders : point = b.point /\ errors = b.errors

\* the call name(input) on the builder; after is the builder that it returns
CallOn(name, input, after) ==
    /\ pc = "building"
    /\ fn = "none"
    /\ fn' = name
    /\ arg' = [self |-> PointBuilder(point, errors), input |-> input]
    /\ point' = after.point
    /\ errors' = after.errors
    /\ UNCHANGED <<pc, result, line, out, batches>>

Self == PointBuilder(point, errors)

call_add_tag ==
    \E tag \in Tags : CallOn("add_tag", tag, PointBuilder_add_tag(Self, tag))

call_add_tags ==
    \E tags \in TagBulks : CallOn("add_tags", tags, PointBuilder_add_tags(Self, tags))

call_try_add_tag ==
    \E tag \in RawTags : CallOn("try_add_tag", tag, PointBuilder_try_add_tag(Self, tag))

call_try_add_tags ==
    \E iter \in RawTagBulks :
        CallOn("try_add_tags", iter, PointBuilder_try_add_tags(Self, iter))

call_add_field ==
    \E field \in Fields : CallOn("add_field", field, PointBuilder_add_field(Self, field))

call_add_fields ==
    \E fields \in FieldBulks :
        CallOn("add_fields", fields, PointBuilder_add_fields(Self, fields))

call_try_add_fields ==
    \E iter \in RawFieldBulks :
        CallOn("try_add_fields", iter, PointBuilder_try_add_fields(Self, iter))

call_timestamp ==
    \E ts \in Timestamps : CallOn("timestamp", ts, PointBuilder_timestamp(Self, ts))

\* errors() reads the queue
call_errors ==
    /\ pc = "building"
    /\ fn = "none"
    /\ fn' = "errors"
    /\ arg' = [self |-> Self, input |-> None]
    /\ out' = errors
    /\ UNCHANGED <<builder, batches>>

call_build ==
    /\ pc = "building"
    /\ fn = "none"
    /\ fn' = "build"
    /\ arg' = [self |-> Self, input |-> None]
    /\ out' = PointBuilder_build(Self)
    /\ pc' = IF PointBuilder_build(Self).panic THEN "panicked" ELSE "built"
    /\ UNCHANGED <<point, errors, result, line, batches>>

NextOps ==
    \/ PointBuilder_new
    \/ call_add_tag
    \/ call_add_tags
    \/ call_try_add_tag
    \/ call_try_add_tags
    \/ call_add_field
    \/ call_add_fields
    \/ call_try_add_fields
    \/ call_timestamp
    \/ call_errors
    \/ call_build

SpecOps == InitOps /\ [][NextOps]_vars

(***************************************************************************)
(* The field value conversions and encodings called on their own: one call  *)
(* on one value                                                             *)
(***************************************************************************)
InitVal == NoBuilder /\ NoBatch /\ fn = "none" /\ arg \in RawValues /\ out = None

call_FieldValue_try_into == Call("FieldValue::try_into", FieldValue_try_into(arg))

call_FieldValue_to_text ==
    /\ Is(arg, "FieldValue")
    /\ Call("FieldValue::to_text", FieldValue_to_text(arg.FieldValue))

\* Field::to_text of the Field that Field::new(key, arg) returned
call_Field_to_text ==
    \E key \in FieldKeys :
        /\ Field_new(key, arg).ok
        /\ Call("Field::to_text", [field |-> Field_new(key, arg).val,
                                   text |-> Field_to_text(Field_new(key, arg).val)])

NextVal ==
    \/ call_FieldValue_try_into
    \/ call_FieldValue_to_text
    \/ call_Field_to_text

SpecVal == InitVal /\ [][NextVal]_vars

(***************************************************************************)
(* Batch: the caller builds a Batch, pushes and flushes, and at the end     *)
(* observes it once                                                         *)
(***************************************************************************)
InitBatch == NoBuilder /\ NoCall /\ NoBatch

\* impl From<V> for Batch
Batch_from_point ==
    /\ ~batch.some
    /\ \E v \in BatchPoints : batch' = Some(Batch_from(v))
    /\ UNCHANGED <<returned, builder, call>>

\* impl From<Vec<V>> for Batch
Batch_from_points ==
    /\ ~batch.some
    /\ \E v \in PointBulks :
         /\ Len(v) <= MaxPoints
         /\ batch' = Some(Batch_from_vec(v))
    /\ UNCHANGED <<returned, builder, call>>

with_capacity ==
    /\ ~batch.some
    /\ batch' = Some(Batch_with_capacity)
    /\ UNCHANGED <<returned, builder, call>>

push_point ==
    /\ batch.some
    /\ fn = "none"
    /\ Batch_len(batch.val) < MaxPoints
    /\ \E p \in BatchPoints : batch' = Some(Batch_push_point(batch.val, p))
    /\ UNCHANGED <<returned, builder, call>>

push_points ==
    /\ batch.some
    /\ fn = "none"
    /\ \E p_vec \in PointBulks :
         /\ Batch_len(batch.val) + Len(p_vec) <= MaxPoints
         /\ batch' = Some(Batch_push_points(batch.val, p_vec))
    /\ UNCHANGED <<returned, builder, call>>

\* clone_and_clear that clones and leaves the receiver as it is
clone_and_clear_keeping ==
    /\ batch.some
    /\ fn = "none"
    /\ returned' = Some(Batch(batch.val.inner))
    /\ UNCHANGED <<batch, builder, call>>

\* mem::swap of inner with a new Vec; the old inner is returned in a Batch
clone_and_clear ==
    /\ batch.some
    /\ fn = "none"
    /\ LET new_v == <<>>
       IN  /\ batch' = Some([batch.val EXCEPT !.inner = new_v])
           /\ returned' = Some(Batch(batch.val.inner))
    /\ UNCHANGED <<builder, call>>

\* a method that reads the Batch: its result is what the caller observes
Observe(name, input, value) ==
    /\ batch.some
    /\ fn = "none"
    /\ fn' = name
    /\ arg' = input
    /\ out' = value
    /\ UNCHANGED <<builder, batches>>

precision == Observe("precision", None, Batch_precision(batch.val))

is_empty == Observe("is_empty", None, Batch_is_empty(batch.val))

len == Observe("len", None, Batch_len(batch.val))

call_to_line_protocol_lossy ==
    /\ batch.some
    /\ fn = "none"
    /\ \E p \in OptionPrecisions :
         \E o \in to_line_protocol_lossy(batch.val, p) :
             Observe("to_line_protocol_lossy", p, o)

NextBatch ==
    \/ Batch_from_point
    \/ Batch_from_points
    \/ with_capacity
    \/ push_point
    \/ push_points
    \/ clone_and_clear
    \/ precision
    \/ is_empty
    \/ len
    \/ call_to_line_protocol_lossy

SpecBatch == InitBatch /\ [][NextBatch]_vars

(***************************************************************************)
(* Properties                                                              *)
(***************************************************************************)
Built == pc \in {"built", "rendered"}
BuildReturned == pc \in {"built", "rendered", "panicked"}
BuildStep == pc = "building" /\ pc' # "building"

\* C1: build returns Err with the first queued error whenever the error queue
\* is non-empty, whatever operations preceded it, and Ok(point) when the queue
\* is empty and a field was added.
C1_BuildReturnsFirstQueuedError ==
    [][BuildStep =>
         /\ errors # <<>> => pc' = "built" /\ result' = Err(errors[1])
         /\ errors = <<>> /\ Len(point.field_set) >= 1 =>
              pc' = "built" /\ result' = Ok(point)]_vars

\* C2: build on a builder holding zero fields panics and returns nothing, so
\* every Point that build returns holds at least one Field.
C2_NoPointWithoutField ==
    /\ BuildReturned /\ Len(point.field_set) = 0 => pc = "panicked" /\ result = None
    /\ Built /\ result.ok => Len(result.val.field_set) >= 1

C2_Witness == pc = "panicked" /\ Len(point.field_set) = 0 /\ Len(point.tag_set) > 0

\* C3: Measurement::new fails for every name that begins with '_' and for
\* every name that contains a newline, exactly as TagKey::new does.
C3_MeasurementRejectsReservedPrefix ==
    fn = "Measurement::new" =>
        /\ (arg # <<>> /\ arg[1] = "_") => ~out.ok
        /\ (\E i \in 1..Len(arg) : arg[i] = "\n") => ~out.ok
        /\ out.ok <=> TagKey_new(arg).ok

\* C4: no TagValue and no string FieldValue held by a builder or a built Point
\* contains a newline.
C4_NoNewlineInValues ==
    pc \in {"building", "built", "rendered", "panicked"} =>
        /\ \A i \in 1..Len(point.tag_set) :
             \A j \in 1..Len(point.tag_set[i].value) : point.tag_set[i].value[j] # "\n"
        /\ \A i \in 1..Len(point.field_set) :
             Is(point.field_set[i].value, "String") =>
                 \A j \in 1..Len(point.field_set[i].value.String) :
                     point.field_set[i].value.String[j] # "\n"

HasNewline(s) == \E i \in 1..Len(s) : s[i] = "\n"
HasReservedPrefix(s) == s # <<>> /\ Head(s) = "_"

\* C5: TagKey::new and FieldKey::new fail with the reserved-prefix error on a
\* leading '_' (also when a newline is present) and with the newline error on
\* a newline; TagValue::new and the string conversion into FieldValue fail only
\* on a newline; every other string is accepted unchanged.
C5_KeyAndValueValidation ==
    /\ fn \in {"TagKey::new", "FieldKey::new"} =>
         out = IF HasReservedPrefix(arg) THEN Err(StartWithForbieden_)
               ELSE IF HasNewline(arg) THEN Err(NewLine)
               ELSE Ok(arg)
    /\ fn = "TagValue::new" =>
         out = IF HasNewline(arg) THEN Err(NewLine) ELSE Ok(arg)
    /\ fn = "FieldValue::try_from" =>
         out = IF HasNewline(arg) THEN Err(NewLine) ELSE Ok(String(arg))

C5_Witness ==
    /\ fn = "TagKey::new"
    /\ arg = <<"_", "\n">>
    /\ out = Err(StartWithForbieden_)

EscapeCalls ==
    {"escape::measurement", "escape::tag_key", "escape::tag_value",
     "escape::field_key", "escape::field_value"}

ReservedOf(f) ==
    CASE f = "escape::measurement" -> {",", " "}
      [] f \in {"escape::tag_key", "escape::tag_value", "escape::field_key"} -> {"=", ",", " "}
      [] f = "escape::field_value" -> {"\"", "\\"}

\* the number of characters of R among the first i characters of s
CountIn(s, R, i) == Cardinality({k \in 1..i : s[k] \in R})

\* C6: escaping inserts exactly one backslash before each reserved character of
\* the category and copies every other character unchanged in order; a string
\* without reserved characters is returned identical, and the output length is
\* the input length plus the number of reserved characters.
C6_EscapeInsertsOneBackslash ==
    fn \in EscapeCalls =>
        LET R == ReservedOf(fn)
            n == Len(arg)
        IN  /\ Len(out) = n + CountIn(arg, R, n)
            /\ \A i \in 1..n : out[i + CountIn(arg, R, i)] = arg[i]
            /\ \A i \in 1..n : arg[i] \in R => out[i + CountIn(arg, R, i) - 1] = "\\"
            /\ CountIn(arg, R, n) = 0 => out = arg

C6_Witness ==
    /\ fn = "escape::field_value"
    /\ arg = <<"\"", "a", "\\">>
    /\ out = <<"\\", "\"", "a", "\\", "\\">>

RECURSIVE Join(_, _)
\* the texts of ts, each one after the first preceded by sep
Join(ts, sep) ==
    IF ts = <<>> THEN <<>>
    ELSE IF Len(ts) = 1 THEN ts[1]
    ELSE Join(SubSeq(ts, 1, Len(ts) - 1), sep) \o sep \o ts[Len(ts)]

RECURSIVE Concat(_)
Concat(ts) == IF ts = <<>> THEN <<>> ELSE Head(ts) \o Concat(Tail(ts))

\* the rendering up to and without the timestamp segment
LineBody(p) ==
    measurement(p.measurment)
    \o Concat([i \in 1..Len(p.tag_set) |->
                 <<",">> \o tag_key(p.tag_set[i].key) \o <<"=">> \o tag_value(p.tag_set[i].value)])
    \o <<" ">>
    \o Join([i \in 1..Len(p.field_set) |->
               field_key(p.field_set[i].key) \o <<"=">> \o FieldValue_to_text(p.field_set[i].value)],
            <<",", " ">>)

IsPrefix(a, b) == Len(a) <= Len(b) /\ SubSeq(b, 1, Len(a)) = a

DecimalChars == {"0", "1", "2", "3", "4", "5", "6", "7", "8", "9", "-"}

ExamplePoint ==
    Point(S_test, <<Tag(S_host, S_serverA)>>, <<Field(S_value, Integer(I64(1)))>>,
          Nanos(I64(100)))

ExampleLine ==
    <<"t", "e", "s", "t", ",", "h", "o", "s", "t", "=", "s", "e", "r", "v", "e", "r", "A",
      " ", "v", "a", "l", "u", "e", "=", "1", "i", " ", "1", "0", "0">>

\* C7: to_text renders the escaped measurement, then ',' key '=' value for each
\* tag in insertion order, then one space, then the fields in insertion order
\* as key '=' encoded value separated by ', ', then the optional timestamp
\* segment; the example point renders as 'test,host=serverA value=1i 100'.
C7_PointRendering ==
    pc = "rendered" =>
        LET body == LineBody(result.val)
            rest == SubSeq(line.val, Len(body) + 1, Len(line.val))
        IN  /\ line.some
            /\ IsPrefix(body, line.val)
            /\ rest # <<>> =>
                 /\ rest[1] = " "
                 /\ Len(rest) >= 2
                 /\ \A i \in 2..Len(rest) : rest[i] \in DecimalChars
            /\ result.val = ExamplePoint => line.val = ExampleLine

C7_Witness == pc = "rendered" /\ result.val = ExamplePoint /\ line.val = ExampleLine

ScaleOf(unit) ==
    CASE unit = "Nanos" -> 0
      [] unit = "Micro" -> 3
      [] unit = "Milli" -> 6
      [] unit = "Secs"  -> 9

\* the decimal text of v * 10^e, computed without a width limit
ExactProductText(v, e) ==
    LET digits == u64_to_string(PowMulU(Wide(Mag(v)), e))
    IN  IF IsNeg(v) THEN <<"-">> \o digits ELSE digits

\* C8: the rendering of a Point with a fixed-instant timestamp, whatever i64 it
\* stores, ends with a space and the integer nanosecond value; for Now the
\* segment and its space are absent.
C8_TimestampSegment ==
    pc = "rendered" =>
        LET p == result.val
        IN  IF p.timestamp = Now
            THEN line.val = LineBody(p)
            ELSE line.val = LineBody(p) \o <<" ">>
                              \o ExactProductText(p.timestamp.v, ScaleOf(p.timestamp.unit))

\* x = v * 10^e as integers: equal magnitudes without a width limit, same sign
IsExactProduct(x, v, e) ==
    /\ Wide(Mag(x)) = PowMulU(Wide(Mag(v)), e)
    /\ IsZero(x) \/ IsNeg(x) = IsNeg(v)

\* does some i64 equal v * 10^e
ProductFits(v, e) ==
    LET p == PowMulU(Wide(Mag(v)), e)
    IN  IF IsNeg(v) THEN ~LessU(Wide(I64_MIN), p) ELSE ~LessU(Wide(I64_MAX), p)

\* C9: to_nanos and timestamp_nanos multiply the stored integer by the unit
\* scale; when the product does not fit in an i64 they report a failure and
\* never return a wrapped value; Now stays Now.
C9_NanosNeverWraps ==
    /\ fn = "to_nanos" =>
         IF arg = Now THEN out = Returns(Now)
         ELSE IF ProductFits(arg.v, ScaleOf(arg.unit))
         THEN /\ ~out.panic
              /\ out.val.unit = "Nanos"
              /\ IsExactProduct(out.val.v, arg.v, ScaleOf(arg.unit))
         ELSE out.panic
    /\ fn = "timestamp_nanos" =>
         IF arg = Now THEN out = None
         ELSE IF ProductFits(arg.v, ScaleOf(arg.unit))
         THEN out.some /\ IsExactProduct(out.val, arg.v, ScaleOf(arg.unit))
         ELSE out = None

TargetOf(f) ==
    CASE f \in {"to_secs_lossy", "timestamp_precision_lossy(Secs)"} -> "Secs"
      [] f \in {"to_milli_lossy", "timestamp_precision_lossy(Milli)"} -> "Milli"
      [] f \in {"to_micro_lossy", "timestamp_precision_lossy(Micro)"} -> "Micro"
      [] f \in {"timestamp_precision_lossy(Nanos)"} -> "Nanos"

LossyCalls ==
    {"to_secs_lossy", "to_milli_lossy", "to_micro_lossy"}
    \cup {PrecisionCall(p) : p \in Precisions}

\* q = v / 10^e truncated toward zero: |q| * 10^e <= |v| < (|q| + 1) * 10^e,
\* and q has the sign of v unless it is zero
IsTruncatedQuotient(q, v, e) ==
    /\ ~LessU(Wide(Mag(v)), PowMulU(Wide(Mag(q)), e))
    /\ LessU(Wide(Mag(v)), PowMulU(MulSmall(Wide(Mag(q)), 1, 1), e))
    /\ IsZero(q) \/ IsNeg(q) = IsNeg(v)

\* C10: a lossy conversion of a fixed instant returns the target unit with the
\* value divided by the scale ratio (truncating toward zero) for a coarser
\* target, multiplied by the ratio for a finer one, unchanged for the same
\* unit; Now is returned as Now.
C10_LossyConversion ==
    fn \in LossyCalls =>
        IF arg = Now THEN out = Returns(Now)
        ELSE LET from == ScaleOf(arg.unit)
                 to   == ScaleOf(TargetOf(fn))
             IN  /\ ~out.panic
                 /\ out.val.unit = TargetOf(fn)
                 /\ to > from => IsTruncatedQuotient(out.val.v, arg.v, to - from)
                 /\ to < from => IsExactProduct(out.val.v, arg.v, from - to)
                 /\ to = from => out.val.v = arg.v

(***************************************************************************)
(* Properties of Batch                                                     *)
(***************************************************************************)
\* the position of an optional precision in Nanos > Micro > Milli > Secs > None
RankOf(opt) ==
    IF ~opt.some THEN 0
    ELSE CASE opt.val = "Secs"  -> 1
           [] opt.val = "Milli" -> 2
           [] opt.val = "Micro" -> 3
           [] opt.val = "Nanos" -> 4

\* the units of the resolved timestamps of the points of vec
ResolvedUnits(vec) ==
    {vec[i].timestamp.unit : i \in {k \in 1..Len(vec) : vec[k].timestamp # Now}}

\* the highest-ranked precision among the resolved timestamps of vec
HighestRanked(vec) ==
    IF ResolvedUnits(vec) = {} THEN None
    ELSE Some(CHOOSE u \in ResolvedUnits(vec) :
                  \A w \in ResolvedUnits(vec) : RankOf(Some(w)) <= RankOf(Some(u)))

\* a step that appends points to the Batch the caller holds
Pushes ==
    /\ batch.some
    /\ batch'.some
    /\ Len(batch'.val.inner) > Len(batch.val.inner)
    /\ SubSeq(batch'.val.inner, 1, Len(batch.val.inner)) = batch.val.inner

Pushed == SubSeq(batch'.val.inner, Len(batch.val.inner) + 1, Len(batch'.val.inner))

\* C11: after any sequence of constructions, pushes and clone_and_clear calls,
\* precision() is the highest-ranked precision among the resolved timestamps of
\* the held points, None exactly when no held point has a resolved timestamp;
\* a push never lowers it, and a push of Now points leaves it unchanged.
C11_AggregatePrecision ==
    /\ [](batch.some =>
            /\ Batch_precision(batch.val) = HighestRanked(batch.val.inner)
            /\ ~Batch_precision(batch.val).some <=>
                 \A i \in 1..Len(batch.val.inner) : batch.val.inner[i].timestamp = Now
            /\ fn = "precision" => out = HighestRanked(batch.val.inner))
    /\ [](returned.some =>
            Batch_precision(returned.val) = HighestRanked(returned.val.inner))
    /\ [][Pushes =>
            /\ RankOf(Batch_precision(batch'.val)) >= RankOf(Batch_precision(batch.val))
            /\ (\A i \in 1..Len(Pushed) : Pushed[i].timestamp = Now) =>
                 Batch_precision(batch'.val) = Batch_precision(batch.val)]_vars

C11_Witness ==
    /\ fn = "precision"
    /\ Len(batch.val.inner) = 2
    /\ batch.val.inner[1].timestamp.unit = "Nanos"
    /\ batch.val.inner[2].timestamp.unit = "Milli"
    /\ out = Some("Nanos")

\* C12: clone_and_clear returns a Batch holding the points of the receiver in
\* the same order, with the same aggregate precision, and leaves the receiver
\* empty (len 0, is_empty) with precision None; points pushed to the receiver
\* afterwards do not appear in the returned Batch.
C12_CloneAndClear ==
    /\ [][returned' # returned =>
            /\ returned'.some
            /\ returned'.val.inner = batch.val.inner
            /\ Batch_precision(returned'.val) = Batch_precision(batch.val)
            /\ Batch_len(batch'.val) = 0
            /\ Batch_is_empty(batch'.val)
            /\ Batch_precision(batch'.val) = None]_vars
    /\ [][Pushes => returned' = returned]_vars
    /\ [](fn = "len" => out = Len(batch.val.inner))
    /\ [](fn = "is_empty" => out = (Len(batch.val.inner) = 0))

C12_Witness ==
    /\ returned.some
    /\ Len(returned.val.inner) = 2
    /\ returned.val.inner[1] # returned.val.inner[2]
    /\ batch.some
    /\ Len(batch.val.inner) = 1
    /\ fn = "len"
    /\ out = 1

Render == fn = "to_line_protocol_lossy"

\* the nanosecond text of the timestamp ts converted to the unit of scale to:
\* divided toward zero for a coarser unit, multiplied for a finer one
ConvertedText(ts, to) ==
    LET from == ScaleOf(ts.unit)
    IN  IF to > from THEN ExactProductText(Div(ts.v, to - from), to)
        ELSE ExactProductText(ts.v, from)

\* C15: to_line_protocol_lossy(Some(p)) renders every point with its timestamp
\* lossily converted to p: a timestamp finer than p loses what is below one
\* unit of p, and a Now point renders without a timestamp segment.
C15_RenderWithPrecision ==
    Render /\ arg.some =>
        /\ ~out.panic
        /\ out.val =
             Join([i \in 1..Len(batch.val.inner) |->
                      LET p == batch.val.inner[i]
                      IN  IF p.timestamp = Now THEN LineBody(p)
                          ELSE LineBody(p) \o <<" ">>
                                 \o ConvertedText(p.timestamp, ScaleOf(arg.val))],
                  <<"\n">>)
        /\ \A i \in 1..Len(batch.val.inner) :
             LET ts == batch.val.inner[i].timestamp
             IN  ts # Now /\ ScaleOf(arg.val) > ScaleOf(ts.unit) =>
                     IsTruncatedQuotient(Div(ts.v, ScaleOf(arg.val) - ScaleOf(ts.unit)),
                                         ts.v, ScaleOf(arg.val) - ScaleOf(ts.unit))

\* C16: to_line_protocol_lossy(None) is the renderings of the held points, each
\* with its own timestamp, joined by one newline in insertion order, without a
\* leading or trailing newline; an empty Batch renders the empty string.
C16_RenderNative ==
    Render /\ ~arg.some =>
        /\ ~out.panic
        /\ out.val = Join([i \in 1..Len(batch.val.inner) |->
                              Point_to_text(batch.val.inner[i])], <<"\n">>)
        /\ batch.val.inner = <<>> => out.val = <<>>
        /\ out.val # <<>> => out.val[1] # "\n" /\ out.val[Len(out.val)] # "\n"

C16_Witness ==
    /\ Render
    /\ ~arg.some
    /\ batch.val.inner = <<BatchPoint(Nanos(I64(1500))), BatchPoint(Now)>>
    /\ out = Returns(<<"t", "e", "s", "t", " ", "v", "a", "l", "u", "e", "=", "1", "i",
                       " ", "1", "5", "0", "0", "\n",
                       "t", "e", "s", "t", " ", "v", "a", "l", "u", "e", "=", "1", "i">>)

\* the texts between the newlines of s
Segments(s) ==
    LET cuts == {k \in 1..Len(s) : s[k] = "\n"}
        ends == cuts \cup {Len(s) + 1}
        begin(e) == IF \E c \in cuts : c < e
                    THEN (CHOOSE c \in cuts : c < e /\ \A d \in cuts : d < e => d <= c) + 1
                    ELSE 1
    IN  {SubSeq(s, begin(e), e - 1) : e \in ends}

\* C19: the rendering of a Point contains no newline, so the output of
\* to_line_protocol_lossy has one segment between newlines for each held
\* point, and the i-th segment is the rendering of the i-th point.
C19_OneLinePerPoint ==
    Render /\ ~out.panic /\ batch.val.inner # <<>> =>
        /\ \A i \in 1..Len(batch.val.inner) :
             \A o \in Point_to_text_with_precision(batch.val.inner[i], arg) :
                 ~o.panic => ~HasNewline(o.val)
        /\ Cardinality({k \in 1..Len(out.val) : out.val[k] = "\n"}) + 1
             = Len(batch.val.inner)
        /\ \A i \in 1..Len(batch.val.inner) :
             \E o \in Point_to_text_with_precision(batch.val.inner[i], arg) :
                 ~o.panic /\ o.val \in Segments(out.val)

(***************************************************************************)
(* Properties of the field values                                          *)
(***************************************************************************)
Digits == {"0", "1", "2", "3", "4", "5", "6", "7", "8", "9"}

AllIn(s, S) == \A i \in 1..Len(s) : s[i] \in S

\* s with a backslash before each double quote and each backslash
QuotedEscaped(s) ==
    Concat([i \in 1..Len(s) |-> IF s[i] \in {"\"", "\\"} THEN <<"\\", s[i]>> ELSE <<s[i]>>])

\* text is the encoding that the claim gives for the FieldValue fv
IsEncoding(fv, text) ==
    CASE Is(fv, "String") -> text = <<"\"">> \o QuotedEscaped(fv.String) \o <<"\"">>
      [] Is(fv, "UInteger") ->
           /\ Len(text) >= 2
           /\ text[Len(text)] = "u"
           /\ AllIn(SubSeq(text, 1, Len(text) - 1), Digits)
           /\ fv.UInteger = I64(42) => text = <<"4", "2", "u">>
      [] Is(fv, "Integer") ->
           LET digits == IF IsNeg(fv.Integer) THEN SubSeq(text, 2, Len(text) - 1)
                         ELSE SubSeq(text, 1, Len(text) - 1)
           IN  /\ text[Len(text)] = "i"
               /\ IsNeg(fv.Integer) => text[1] = "-"
               /\ digits # <<>>
               /\ AllIn(digits, Digits)
               /\ fv.Integer = I64(42) => text = <<"4", "2", "i">>
               /\ fv.Integer = I64(-42) => text = <<"-", "4", "2", "i">>
      [] Is(fv, "Boolean") ->
           text = IF fv.Boolean THEN <<"t", "r", "u", "e">> ELSE <<"f", "a", "l", "s", "e">>
      [] Is(fv, "Float") ->
           /\ text # <<>>
           /\ AllIn(text, Digits \cup {"-", "."})
           /\ text[Len(text)] \in Digits
           /\ \E i \in 1..Len(text) : text[i] \in Digits

\* C17: a FieldValue is encoded as the quoted escaped text (String), the digits
\* and 'u' (UInteger), the decimal text with '-' for negatives and 'i'
\* (Integer), true or false (Boolean), plain decimal text without a suffix
\* (Float); a Field is its escaped key, '=' and the encoded value, so that key
\* 'k' renders 'k=42i' with Integer 42 and 'k=42u' with UInteger 42.
C17_FieldEncoding ==
    /\ fn = "FieldValue::to_text" => IsEncoding(arg.FieldValue, out)
    /\ fn = "Field::to_text" =>
         LET prefix == field_key(out.field.key) \o <<"=">>
         IN  /\ IsPrefix(prefix, out.text)
             /\ IsEncoding(out.field.value,
                           SubSeq(out.text, Len(prefix) + 1, Len(out.text)))
    /\ fn = "Field::to_text" /\ out.field.key = <<"k">> =>
         /\ out.field.value = Integer(I64(42)) => out.text = <<"k", "=", "4", "2", "i">>
         /\ out.field.value = UInteger(I64(42)) => out.text = <<"k", "=", "4", "2", "u">>

IsNaN(raw) == (Is(raw, "f64") /\ raw.f64 = NaN) \/ (Is(raw, "f32") /\ raw.f32 = NaN)

\* C18: the conversion of a NaN float (f64 or f32) into a FieldValue fails with
\* an error and yields no value; every other float, the infinities included,
\* converts to the Float holding it; no Float FieldValue holds NaN.
C18_NaNRejected ==
    fn = "FieldValue::try_into" =>
        /\ IsNaN(arg) => ~out.ok /\ DOMAIN out = {"ok", "err"}
        /\ Is(arg, "f64") /\ ~IsNaN(arg) => out = Ok(Float(arg.f64))
        /\ Is(arg, "f32") /\ ~IsNaN(arg) => out = Ok(Float(arg.f32))
        /\ out.ok /\ Is(out.val, "Float") => out.val.Float # NaN

C18_Witness ==
    /\ fn = "FieldValue::try_into"
    /\ arg = RawF32(NaN)
    /\ ~out.ok

(***************************************************************************)
(* Properties of the PointBuilder methods                                  *)
(***************************************************************************)
TagCalls == {"add_tag", "add_tags", "try_add_tag", "try_add_tags"}
FieldCalls == {"add_field", "add_fields", "try_add_fields"}
RawCalls == {"try_add_tag", "try_add_tags", "try_add_fields"}

\* the items that the call passed, as a sequence
Items == IF fn \in {"add_tags", "try_add_tags", "add_fields", "try_add_fields"}
         THEN arg.input ELSE <<arg.input>>

\* the conversion of each item of a raw call
Conversions ==
    [i \in 1..Len(Items) |->
        IF fn = "try_add_fields" THEN Field_try_from(Items[i]) ELSE Tag_try_from(Items[i])]

\* the errors of the items that failed to convert, in input order; none for a
\* call that takes validated items
ItemErrors ==
    IF fn \notin RawCalls THEN <<>>
    ELSE LET failed == SelectSeq(Conversions, LAMBDA r : ~r.ok)
         IN  [i \in 1..Len(failed) |-> failed[i].err]

\* the Tags or Fields that the call holds after validation, in input order
Added ==
    IF fn \in RawCalls THEN [i \in 1..Len(Items) |-> Conversions[i].val] ELSE Items

\* C13: after one try_add_tags or try_add_fields call with k failing items the
\* error queue has grown by k entries, one for each invalid item, in input
\* order.
C13_OneErrorPerInvalidItem ==
    fn \in {"try_add_tags", "try_add_fields"} =>
        /\ Len(errors) = Len(arg.self.errors) + Len(ItemErrors)
        /\ errors = arg.self.errors \o ItemErrors

\* C14: a raw addition that fails appends to the error queue and leaves the
\* measurement, tags, fields and timestamp as they were, the valid items of the
\* same call included; the chain goes on, and an addition of valid items after
\* failures appends them as it does on a builder without queued errors.
C14_FailureLeavesPoint ==
    /\ fn \in RawCalls /\ ItemErrors # <<>> =>
         /\ pc = "building"
         /\ point = arg.self.point
         /\ Len(errors) > Len(arg.self.errors)
         /\ SubSeq(errors, 1, Len(arg.self.errors)) = arg.self.errors
         /\ errors[Len(arg.self.errors) + 1] = ItemErrors[1]
    /\ fn \in TagCalls \cup FieldCalls /\ ItemErrors = <<>> =>
         /\ errors = arg.self.errors
         /\ point = IF fn \in FieldCalls
                    THEN [arg.self.point EXCEPT !.field_set = @ \o Added]
                    ELSE [arg.self.point EXCEPT !.tag_set = @ \o Added]

C14_Witness ==
    /\ fn = "try_add_fields"
    /\ Len(arg.input) = 2
    /\ Field_try_from(arg.input[1]).ok
    /\ ~Field_try_from(arg.input[2]).ok
    /\ arg.self.errors # <<>>
    /\ point = arg.self.point
    /\ errors = Append(arg.self.errors, Field_try_from(arg.input[2]).err)

\* C20: the tags and the fields of a builder grow only at the end, by the
\* items of each successful addition in input order, duplicates kept; add_tag,
\* add_tags, add_field, add_fields and timestamp leave the error queue alone;
\* the timestamp is the argument of the last timestamp call, Now on a new
\* builder; build returns the Point with these sequences.
C20_AppendOnly ==
    /\ [](fn \in TagCalls \cup FieldCalls \cup {"timestamp"} =>
            /\ point.measurment = arg.self.point.measurment
            /\ point.tag_set =
                 IF fn \in TagCalls /\ ItemErrors = <<>>
                 THEN arg.self.point.tag_set \o Added ELSE arg.self.point.tag_set
            /\ point.field_set =
                 IF fn \in FieldCalls /\ ItemErrors = <<>>
                 THEN arg.self.point.field_set \o Added ELSE arg.self.point.field_set
            /\ point.timestamp =
                 IF fn = "timestamp" THEN arg.input ELSE arg.self.point.timestamp
            /\ fn \notin RawCalls => errors = arg.self.errors)
    /\ [](fn = "build" /\ ~out.panic /\ out.val.ok => out.val.val = arg.self.point)
    /\ [][pc = "start" /\ pc' = "building" =>
            /\ point'.tag_set = <<>>
            /\ point'.field_set = <<>>
            /\ point'.timestamp = Now
            /\ errors' = <<>>]_vars

C20_Witness ==
    /\ fn = "add_tags"
    /\ arg.self.point.tag_set = <<Tag(S_host, S_serverA)>>
    /\ arg.input = <<Tag(<<"k", " ">>, <<"_", "v", "=">>), Tag(S_host, S_serverA)>>
    /\ point.tag_set = <<Tag(S_host, S_serverA), Tag(<<"k", " ">>, <<"_", "v", "=">>),
                         Tag(S_host, S_serverA)>>
    /\ arg.self.errors # <<>>
    /\ errors = arg.self.errors

====
